---- MODULE Spec2Model ----
(***************************************************************************)
(* Model of the mutual-TLS schema-migrator wrapper.                        *)
(*                                                                         *)
(*   library  src/cmd/signozschemamigrator/schema_migrator/tls_migrator.go *)
(*   CLI      src/unnamed/part_001 (package main)                          *)
(*                                                                         *)
(* Every entry point is a sequential function over external collaborators  *)
(* (the file system, clickhouse.ParseDSN / clickhouse.Open, the migration  *)
(* manager).  A call is modelled as one action: it draws the arguments and *)
(* the outcome of every external step, runs the function as the code runs  *)
(* it and records the external steps performed, in order, in `log`, and    *)
(* the value returned in `result`.                                         *)
(***************************************************************************)
EXTENDS Integers, Sequences, FiniteSets, TLC

VARIABLES
    fs,       \* the certificate files on disk: path -> file state
    entry,    \* the entry point that was called ("idle" before the call)
    args,     \* the arguments it was called with
    log,      \* the external steps performed, in order
    result,   \* what the call returned
    env,      \* the environment of the process: variable name -> value
    cmdFlags  \* the flag values a command's RunE was run on

vars == <<fs, entry, args, log, result, env, cmdFlags>>

(***************************************************************************)
(* Bounds and input sets                                                   *)
(***************************************************************************)
MaxLen == 1

Versions == {1, 2}

VersionLists == UNION {[1..n -> Versions] : n \in 0..MaxLen}

GoodDSN == "clickhouse://user:pw@db:9000/signoz"

BadDSN == "clickhouse://%zz"

DSNs == {GoodDSN, BadDSN}

ClusterNames == {"cluster"}

CertDirs == {"/certs"}

DefaultCertName == "fullchain.crt"

DefaultKeyName == "private_migration.key"

DefaultCAName == "partialchain.crt"

(***************************************************************************)
(* Values                                                                  *)
(***************************************************************************)
Ev(call, arg, ok) == [call |-> call, arg |-> arg, ok |-> ok]

NoResult == [status |-> "none", err |-> <<>>]

Ok == [status |-> "ok", err |-> <<>>]

Error(e) == [status |-> "error", err |-> e]

Panic == [status |-> "panic", err |-> <<"nil pointer dereference">>]

Ret(l, r) == [log |-> l, res |-> r]

\* fmt.Errorf("<prefix>: %w", cause): the cause chain with the prefix in front
Errorf(prefix, cause) == <<prefix>> \o cause

\* fmt.Sprintf("%s/%s", dir, name)
Sprintf(dir, name) == dir \o "/" \o name

\* the error an external collaborator returns when its step fails
ExtErr(call) == <<call \o ": external error">>

(***************************************************************************)
(* The file system and the external functions over it                      *)
(***************************************************************************)
FileStates == {"missing", "unreadable", "garbage", "pem"}

\* a key file may also hold a well-formed key of another certificate
KeyStates == FileStates \cup {"mismatch"}

FileSystems ==
    {[p \in {Sprintf(d, DefaultCertName), Sprintf(d, DefaultKeyName),
             Sprintf(d, DefaultCAName)} |->
        IF p = Sprintf(d, DefaultCertName) THEN c
        ELSE IF p = Sprintf(d, DefaultKeyName) THEN k ELSE a] :
        d \in CertDirs, c \in FileStates, k \in KeyStates, a \in FileStates}

FileState(f, p) == IF p \in DOMAIN f THEN f[p] ELSE "missing"

\* os.Stat: fails only when the path does not exist
Stat(f, p) ==
    IF FileState(f, p) = "missing"
    THEN <<"stat: no such file or directory">> ELSE <<>>

\* os.ReadFile: fails when the file is missing or cannot be opened
ReadFile(f, p) ==
    IF FileState(f, p) = "missing" THEN <<"open: no such file or directory">>
    ELSE IF FileState(f, p) = "unreadable" THEN <<"open: permission denied">>
    ELSE <<>>

\* tls.LoadX509KeyPair: reads both files, parses both, checks they match
LoadX509KeyPair(f, certFile, keyFile) ==
    IF ReadFile(f, certFile) # <<>> THEN ReadFile(f, certFile)
    ELSE IF ReadFile(f, keyFile) # <<>> THEN ReadFile(f, keyFile)
    ELSE IF FileState(f, certFile) # "pem"
         THEN <<"tls: failed to find any PEM data in certificate input">>
    ELSE IF FileState(f, keyFile) = "garbage"
         THEN <<"tls: failed to find any PEM data in key input">>
    ELSE IF FileState(f, keyFile) # "pem"
         THEN <<"tls: private key does not match public key">>
    ELSE <<>>

\* (*x509.CertPool).AppendCertsFromPEM: TRUE iff a certificate was parsed
AppendCertsFromPEM(f, p) == FileState(f, p) = "pem"

\* clickhouse.ParseDSN
ParseDSN(dsn) == IF dsn = GoodDSN THEN <<>> ELSE <<"parse dsn: invalid URL escape">>

(***************************************************************************)
(* Library: TLSMigrator (tls_migrator.go)                                  *)
(***************************************************************************)
\* the outcomes of the external steps of one call
ExtOutcomes ==
    [open : BOOLEAN, manager : BOOLEAN, bootstrap : BOOLEAN,
     squashed : BOOLEAN, migrate : BOOLEAN, ping : BOOLEAN]

\* MigrateArgs values a caller may pass
MigrateArgsSet ==
    [DSN : DSNs, ClusterName : ClusterNames, ReplicationEnabled : {FALSE},
     Development : {FALSE}, UpVersions : VersionLists, DownVersions : VersionLists,
     CertDir : CertDirs, CertName : {DefaultCertName}, KeyName : {DefaultKeyName},
     CAName : {DefaultCAName}]

\* createTLSConfig refusing a CA file from which no certificate is parsed
M_TLSMigrator_createTLSConfig(a, f) ==
    LET certFile == Sprintf(a.CertDir, a.CertName)
        privateKeyFile == Sprintf(a.CertDir, a.KeyName)
        caFile == Sprintf(a.CertDir, a.CAName)
        pair == LoadX509KeyPair(f, certFile, privateKeyFile)
        l1 == <<Ev("LoadX509KeyPair", <<certFile, privateKeyFile>>, pair = <<>>)>>
        caCert == ReadFile(f, caFile)
        l2 == Append(l1, Ev("ReadFile", <<caFile>>, caCert = <<>>))
    IN  IF pair # <<>>
        THEN [log |-> l1, err |-> Errorf("failed to load client key pair", pair),
              tls |-> <<>>]
        ELSE IF caCert # <<>>
        THEN [log |-> l2, err |-> Errorf("failed to read ca certificate", caCert),
              tls |-> <<>>]
        ELSE IF ~AppendCertsFromPEM(f, caFile)
        THEN [log |-> l2, err |-> <<"failed to parse ca certificate">>, tls |-> <<>>]
        ELSE [log |-> l2, err |-> <<>>,
              tls |-> <<[Certificates |-> <<certFile>>, RootCAs |-> <<caFile>>]>>]

\* createTLSConfig: load the key pair, read the CA file, build the pool
\* (the result of AppendCertsFromPEM is dropped) and the tls.Config
TLSMigrator_createTLSConfig(a, f) ==
    LET certFile == Sprintf(a.CertDir, a.CertName)
        privateKeyFile == Sprintf(a.CertDir, a.KeyName)
        caFile == Sprintf(a.CertDir, a.CAName)
        pair == LoadX509KeyPair(f, certFile, privateKeyFile)
        l1 == <<Ev("LoadX509KeyPair", <<certFile, privateKeyFile>>, pair = <<>>)>>
        caCert == ReadFile(f, caFile)
        l2 == Append(l1, Ev("ReadFile", <<caFile>>, caCert = <<>>))
    IN  IF pair # <<>>
        THEN [log |-> l1, err |-> Errorf("failed to load client key pair", pair),
              tls |-> <<>>]
        ELSE IF caCert # <<>>
        THEN [log |-> l2, err |-> Errorf("failed to read ca certificate", caCert),
              tls |-> <<>>]
        ELSE [log |-> l2, err |-> <<>>,
              tls |-> <<[Certificates |-> <<certFile>>,
                         RootCAs |-> IF AppendCertsFromPEM(f, caFile)
                                     THEN <<caFile>> ELSE <<>>]>>]

\* TM_Migrate treating two empty lists as nothing to do
M_TM_Migrate(a, x, l) ==
    IF Len(a.DownVersions) # 0
    THEN Ret(Append(l, Ev("MigrateDownSync", a.DownVersions, x.migrate)),
             IF x.migrate THEN Ok ELSE Error(ExtErr("MigrateDownSync")))
    ELSE IF Len(a.UpVersions) # 0
    THEN Ret(Append(l, Ev("MigrateUpSync", a.UpVersions, x.migrate)),
             IF x.migrate THEN Ok ELSE Error(ExtErr("MigrateUpSync")))
    ELSE Ret(l, Ok)

\* RunSyncMigrate, lines 154-159: the migrate stage
TM_Migrate(a, x, l) ==
    IF Len(a.DownVersions) # 0
    THEN Ret(Append(l, Ev("MigrateDownSync", a.DownVersions, x.migrate)),
             IF x.migrate THEN Ok ELSE Error(ExtErr("MigrateDownSync")))
    ELSE Ret(Append(l, Ev("MigrateUpSync", a.UpVersions, x.migrate)),
             IF x.migrate THEN Ok ELSE Error(ExtErr("MigrateUpSync")))

\* TM_Squashed returning the manager's error without context
M_TM_Squashed(a, x, l) ==
    LET l1 == Append(l, Ev("RunSquashedMigrations", <<>>, x.squashed))
    IN  IF ~x.squashed
        THEN Ret(l1, Error(ExtErr("RunSquashedMigrations")))
        ELSE TM_Migrate(a, x, l1)

\* RunSyncMigrate, lines 148-152: the squashed migrations, then the rest
TM_Squashed(a, x, l) ==
    LET l1 == Append(l, Ev("RunSquashedMigrations", <<>>, x.squashed))
    IN  IF ~x.squashed
        THEN Ret(l1, Error(Errorf("failed to run squashed migrations",
                                  ExtErr("RunSquashedMigrations"))))
        ELSE TM_Migrate(a, x, l1)

\* TM_Bootstrap with the error of Bootstrap ignored
M_TM_Bootstrap(a, x, l) ==
    TM_Squashed(a, x, Append(l, Ev("Bootstrap", <<>>, x.bootstrap)))

\* RunSyncMigrate, lines 142-146: bootstrap, then the rest
TM_Bootstrap(a, x, l) ==
    LET l1 == Append(l, Ev("Bootstrap", <<>>, x.bootstrap))
    IN  IF ~x.bootstrap
        THEN Ret(l1, Error(Errorf("failed to bootstrap migrations",
                                  ExtErr("Bootstrap"))))
        ELSE TM_Squashed(a, x, l1)

\* RunSyncMigrate, lines 130-140: construct the manager, then the rest
TM_NewManager(a, x, opts, l) ==
    LET l1 == Append(l, Ev("NewMigrationManager",
                           [ClusterName |-> a.ClusterName,
                            ReplicationEnabled |-> a.ReplicationEnabled,
                            ConnOptions |-> opts,
                            Development |-> a.Development], x.manager))
    IN  IF ~x.manager
        THEN Ret(l1, Error(Errorf("failed to create migration manager",
                                  ExtErr("NewMigrationManager"))))
        ELSE TM_Bootstrap(a, x, l1)

\* RunSyncMigrate, lines 123-128: open the connection, then the rest
TM_Open(a, x, opts, l) ==
    LET l1 == Append(l, Ev("Open", opts, x.open))
    IN  IF ~x.open
        THEN Ret(l1, Error(Errorf("failed to open connection", ExtErr("Open"))))
        ELSE TM_NewManager(a, x, opts, l1)

\* RunSyncMigrate, lines 115-120: build the TLS config, set it on the options
TM_TLS(a, f, x, opts, l) ==
    LET t == TLSMigrator_createTLSConfig(a, f)
    IN  IF t.err # <<>>
        THEN Ret(l \o t.log, Error(Errorf("failed to get tls config", t.err)))
        ELSE TM_Open(a, x, [opts EXCEPT !.TLS = t.tls], l \o t.log)

\* RunSyncMigrate, lines 109-113: parse the DSN into connection options
TM_ParseDSN(a, f, x) ==
    LET e == ParseDSN(a.DSN)
        l1 == <<Ev("ParseDSN", <<a.DSN>>, e = <<>>)>>
    IN  IF e # <<>>
        THEN Ret(l1, Error(Errorf("failed to parse dsn", e)))
        ELSE TM_TLS(a, f, x, [dsn |-> a.DSN, TLS |-> <<>>], l1)

\* TM_BothGiven with the argument check left out
M_TM_BothGiven(a) == FALSE

\* RunSyncMigrate, line 105: both version lists given
TM_BothGiven(a) == Len(a.UpVersions) # 0 /\ Len(a.DownVersions) # 0

TLSMigrator_RunSyncMigrate(a, f, x) ==
    IF TM_BothGiven(a)
    THEN Ret(<<>>, Error(<<"cannot provide both up and down migrations">>))
    ELSE TM_ParseDSN(a, f, x)

DefaultsArgs(dsn, clusterName, certDir) ==
    [DSN |-> dsn, ClusterName |-> clusterName, ReplicationEnabled |-> FALSE,
     Development |-> FALSE, UpVersions |-> <<>>, DownVersions |-> <<>>,
     CertDir |-> certDir, CertName |-> "fullchain.crt",
     KeyName |-> "private_migration.key", CAName |-> "partialchain.crt"]

UpArgs(dsn, clusterName, certDir, versions) ==
    [DSN |-> dsn, ClusterName |-> clusterName, ReplicationEnabled |-> FALSE,
     Development |-> FALSE, UpVersions |-> versions, DownVersions |-> <<>>,
     CertDir |-> certDir, CertName |-> "fullchain.crt",
     KeyName |-> "private_migration.key", CAName |-> "partialchain.crt"]

DownArgs(dsn, clusterName, certDir, versions) ==
    [DSN |-> dsn, ClusterName |-> clusterName, ReplicationEnabled |-> FALSE,
     Development |-> FALSE, UpVersions |-> <<>>, DownVersions |-> versions,
     CertDir |-> certDir, CertName |-> "fullchain.crt",
     KeyName |-> "private_migration.key", CAName |-> "partialchain.crt"]

TLSMigrator_RunSyncMigrateWithDefaults(dsn, clusterName, certDir, f, x) ==
    TLSMigrator_RunSyncMigrate(DefaultsArgs(dsn, clusterName, certDir), f, x)

TLSMigrator_RunUpMigrations(dsn, clusterName, certDir, versions, f, x) ==
    TLSMigrator_RunSyncMigrate(UpArgs(dsn, clusterName, certDir, versions), f, x)

TLSMigrator_RunDownMigrations(dsn, clusterName, certDir, versions, f, x) ==
    TLSMigrator_RunSyncMigrate(DownArgs(dsn, clusterName, certDir, versions), f, x)

\* VT_Load dropping the result of AppendCertsFromPEM, as createTLSConfig does
M_VT_Load(certFile, keyFile, caFile, f, l) ==
    LET pair == LoadX509KeyPair(f, certFile, keyFile)
        l1 == Append(l, Ev("LoadX509KeyPair", <<certFile, keyFile>>, pair = <<>>))
        caCert == ReadFile(f, caFile)
        l2 == Append(l1, Ev("ReadFile", <<caFile>>, caCert = <<>>))
    IN  IF pair # <<>>
        THEN Ret(l1, Error(Errorf("failed to load certificate pair", pair)))
        ELSE IF caCert # <<>>
        THEN Ret(l2, Error(Errorf("failed to read CA certificate", caCert)))
        ELSE Ret(l2, Ok)

\* VT_Load without the load of the certificate/key pair
M_VT_LoadCAOnly(certFile, keyFile, caFile, f, l) ==
    LET caCert == ReadFile(f, caFile)
        l2 == Append(l, Ev("ReadFile", <<caFile>>, caCert = <<>>))
    IN  IF caCert # <<>>
        THEN Ret(l2, Error(Errorf("failed to read CA certificate", caCert)))
        ELSE IF ~AppendCertsFromPEM(f, caFile)
        THEN Ret(l2, Error(<<"failed to parse CA certificate">>))
        ELSE Ret(l2, Ok)

\* ValidateTLSConfig, lines 237-255: load the pair, read and parse the CA
VT_Load(certFile, keyFile, caFile, f, l) ==
    LET pair == LoadX509KeyPair(f, certFile, keyFile)
        l1 == Append(l, Ev("LoadX509KeyPair", <<certFile, keyFile>>, pair = <<>>))
        caCert == ReadFile(f, caFile)
        l2 == Append(l1, Ev("ReadFile", <<caFile>>, caCert = <<>>))
    IN  IF pair # <<>>
        THEN Ret(l1, Error(Errorf("failed to load certificate pair", pair)))
        ELSE IF caCert # <<>>
        THEN Ret(l2, Error(Errorf("failed to read CA certificate", caCert)))
        ELSE IF ~AppendCertsFromPEM(f, caFile)
        THEN Ret(l2, Error(<<"failed to parse CA certificate">>))
        ELSE Ret(l2, Ok)

\* ValidateTLSConfig, lines 232-235: the CA file exists
VT_StatCA(certFile, keyFile, caFile, f, l) ==
    LET e == Stat(f, caFile)
        l1 == Append(l, Ev("Stat", <<caFile>>, e = <<>>))
    IN  IF e # <<>>
        THEN Ret(l1, Error(Errorf("CA file not accessible", e)))
        ELSE VT_Load(certFile, keyFile, caFile, f, l1)

\* VT_StatKey with the check of the key file left out
M_VT_StatKey(certFile, keyFile, caFile, f, l) ==
    VT_StatCA(certFile, keyFile, caFile, f, l)

\* ValidateTLSConfig, lines 227-230: the key file exists
VT_StatKey(certFile, keyFile, caFile, f, l) ==
    LET e == Stat(f, keyFile)
        l1 == Append(l, Ev("Stat", <<keyFile>>, e = <<>>))
    IN  IF e # <<>>
        THEN Ret(l1, Error(Errorf("key file not accessible", e)))
        ELSE VT_StatCA(certFile, keyFile, caFile, f, l1)

\* ValidateTLSConfig, lines 218-225: the paths; the certificate file exists
TLSMigrator_ValidateTLSConfig(a, f) ==
    LET certFile == Sprintf(a.CertDir, a.CertName)
        keyFile == Sprintf(a.CertDir, a.KeyName)
        caFile == Sprintf(a.CertDir, a.CAName)
        e == Stat(f, certFile)
        l1 == <<Ev("Stat", <<certFile>>, e = <<>>)>>
    IN  IF e # <<>>
        THEN Ret(l1, Error(Errorf("certificate file not accessible", e)))
        ELSE VT_StatKey(certFile, keyFile, caFile, f, l1)

\* TC_Ping with Close called after a successful Ping only, not deferred
M_TC_Ping(x, l) ==
    LET l1 == Append(l, Ev("Ping", <<>>, x.ping))
    IN  IF ~x.ping
        THEN Ret(l1, Error(Errorf("failed to ping database", ExtErr("Ping"))))
        ELSE Ret(Append(l1, Ev("Close", <<>>, TRUE)), Ok)

\* TestConnection, lines 276-285: deferred Close, Ping
TC_Ping(x, l) ==
    LET l1 == Append(l, Ev("Ping", <<>>, x.ping))
        l2 == Append(l1, Ev("Close", <<>>, TRUE))
    IN  IF ~x.ping
        THEN Ret(l2, Error(Errorf("failed to ping database", ExtErr("Ping"))))
        ELSE Ret(l2, Ok)

\* TestConnection, lines 272-275: open the connection
TC_Open(x, opts, l) ==
    LET l1 == Append(l, Ev("Open", opts, x.open))
    IN  IF ~x.open
        THEN Ret(l1, Error(Errorf("failed to open connection", ExtErr("Open"))))
        ELSE TC_Ping(x, l1)

\* TestConnection, lines 265-270: build the TLS config
TC_TLS(a, f, x, opts, l) ==
    LET t == TLSMigrator_createTLSConfig(a, f)
    IN  IF t.err # <<>>
        THEN Ret(l \o t.log, Error(Errorf("failed to create TLS config", t.err)))
        ELSE TC_Open(x, [opts EXCEPT !.TLS = t.tls], l \o t.log)

\* TestConnection building the TLS config before it parses the DSN
M_TLSMigrator_TestConnection(a, f, x) ==
    LET t == TLSMigrator_createTLSConfig(a, f)
        e == ParseDSN(a.DSN)
        l1 == Append(t.log, Ev("ParseDSN", <<a.DSN>>, e = <<>>))
    IN  IF t.err # <<>>
        THEN Ret(t.log, Error(Errorf("failed to create TLS config", t.err)))
        ELSE IF e # <<>>
        THEN Ret(l1, Error(Errorf("failed to parse DSN", e)))
        ELSE TC_Open(x, [dsn |-> a.DSN, TLS |-> t.tls], l1)

\* TestConnection, lines 260-263: parse the DSN first
TLSMigrator_TestConnection(a, f, x) ==
    LET e == ParseDSN(a.DSN)
        l1 == <<Ev("ParseDSN", <<a.DSN>>, e = <<>>)>>
    IN  IF e # <<>>
        THEN Ret(l1, Error(Errorf("failed to parse DSN", e)))
        ELSE TC_TLS(a, f, x, [dsn |-> a.DSN, TLS |-> <<>>], l1)


(***************************************************************************)
(* CLI: package main (part_001)                                            *)
(***************************************************************************)
\* values of the CLI function's runSyncMigrateArgs
RunSyncMigrateArgsSet ==
    [dsn : DSNs, clusterName : ClusterNames, replicationEnabled : {FALSE},
     development : {FALSE}, upVersions : VersionLists, downVersions : VersionLists,
     certDir : CertDirs, certName : {DefaultCertName}, keyName : {DefaultKeyName},
     caName : {DefaultCAName}]

\* createTLSConfig of package main
createTLSConfig(a, f) ==
    LET certFile == Sprintf(a.certDir, a.certName)
        privateKeyFile == Sprintf(a.certDir, a.keyName)
        caFile == Sprintf(a.certDir, a.caName)
        pair == LoadX509KeyPair(f, certFile, privateKeyFile)
        l1 == <<Ev("LoadX509KeyPair", <<certFile, privateKeyFile>>, pair = <<>>)>>
        caCert == ReadFile(f, caFile)
        l2 == Append(l1, Ev("ReadFile", <<caFile>>, caCert = <<>>))
    IN  IF pair # <<>>
        THEN [log |-> l1, err |-> Errorf("failed to load client key pair", pair),
              tls |-> <<>>]
        ELSE IF caCert # <<>>
        THEN [log |-> l2, err |-> Errorf("failed to read ca certificate", caCert),
              tls |-> <<>>]
        ELSE [log |-> l2, err |-> <<>>,
              tls |-> <<[Certificates |-> <<certFile>>,
                         RootCAs |-> IF AppendCertsFromPEM(f, caFile)
                                     THEN <<caFile>> ELSE <<>>]>>]

\* RunSyncMigrate (CLI), lines 182-187
Main_Migrate(a, x, l) ==
    IF Len(a.downVersions) # 0
    THEN Ret(Append(l, Ev("MigrateDownSync", a.downVersions, x.migrate)),
             IF x.migrate THEN Ok ELSE Error(ExtErr("MigrateDownSync")))
    ELSE Ret(Append(l, Ev("MigrateUpSync", a.upVersions, x.migrate)),
             IF x.migrate THEN Ok ELSE Error(ExtErr("MigrateUpSync")))

\* RunSyncMigrate (CLI), lines 176-180
Main_Squashed(a, x, l) ==
    LET l1 == Append(l, Ev("RunSquashedMigrations", <<>>, x.squashed))
    IN  IF ~x.squashed
        THEN Ret(l1, Error(Errorf("failed to run squashed migrations",
                                  ExtErr("RunSquashedMigrations"))))
        ELSE Main_Migrate(a, x, l1)

\* Main_Bootstrap with the bootstrap step left out
M_Main_Bootstrap(a, x, l) == Main_Squashed(a, x, l)

\* RunSyncMigrate (CLI), lines 170-174
Main_Bootstrap(a, x, l) ==
    LET l1 == Append(l, Ev("Bootstrap", <<>>, x.bootstrap))
    IN  IF ~x.bootstrap
        THEN Ret(l1, Error(Errorf("failed to bootstrap migrations",
                                  ExtErr("Bootstrap"))))
        ELSE Main_Squashed(a, x, l1)

\* RunSyncMigrate (CLI), lines 159-169
Main_NewManager(a, x, opts, l) ==
    LET l1 == Append(l, Ev("NewMigrationManager",
                           [ClusterName |-> a.clusterName,
                            ReplicationEnabled |-> a.replicationEnabled,
                            ConnOptions |-> opts,
                            Development |-> a.development], x.manager))
    IN  IF ~x.manager
        THEN Ret(l1, Error(Errorf("failed to create migration manager",
                                  ExtErr("NewMigrationManager"))))
        ELSE Main_Bootstrap(a, x, l1)

\* RunSyncMigrate (CLI), lines 151-157
Main_Open(a, x, opts, l) ==
    LET l1 == Append(l, Ev("Open", opts, x.open))
    IN  IF ~x.open
        THEN Ret(l1, Error(Errorf("failed to open connection", ExtErr("Open"))))
        ELSE Main_NewManager(a, x, opts, l1)

\* RunSyncMigrate (CLI), lines 143-148
Main_TLS(a, f, x, opts, l) ==
    LET t == createTLSConfig(a, f)
    IN  IF t.err # <<>>
        THEN Ret(l \o t.log, Error(Errorf("failed to get tls config", t.err)))
        ELSE Main_Open(a, x, [opts EXCEPT !.TLS = t.tls], l \o t.log)

\* RunSyncMigrate (CLI), lines 137-141
Main_ParseDSN(a, f, x) ==
    LET e == ParseDSN(a.dsn)
        l1 == <<Ev("ParseDSN", <<a.dsn>>, e = <<>>)>>
    IN  IF e # <<>>
        THEN Ret(l1, Error(Errorf("failed to parse dsn", e)))
        ELSE Main_TLS(a, f, x, [dsn |-> a.dsn, TLS |-> <<>>], l1)

\* RunSyncMigrate (CLI), line 133
Main_BothGiven(a) == Len(a.upVersions) # 0 /\ Len(a.downVersions) # 0

RunSyncMigrate(a, f, x) ==
    IF Main_BothGiven(a)
    THEN Ret(<<>>, Error(<<"cannot provide both up and down migrations">>))
    ELSE Main_ParseDSN(a, f, x)

(* Flag values.  The value of --up / --down is a string, modelled as the   *)
(* sequence of its characters; the other flag values are atoms.            *)
Digits == {"0", "1", "2", "3", "4", "5", "6", "7", "8", "9"}

DigitValue(c) ==
    CASE c = "0" -> 0 [] c = "1" -> 1 [] c = "2" -> 2 [] c = "3" -> 3
      [] c = "4" -> 4 [] c = "5" -> 5 [] c = "6" -> 6 [] c = "7" -> 7
      [] c = "8" -> 8 [] c = "9" -> 9

\* strings.Split(s, ","): the pieces between the commas, empty pieces included
RECURSIVE SplitFrom(_, _, _, _)
SplitFrom(s, i, cur, acc) ==
    IF i > Len(s) THEN Append(acc, cur)
    ELSE IF s[i] = "," THEN SplitFrom(s, i + 1, <<>>, Append(acc, cur))
    ELSE SplitFrom(s, i + 1, Append(cur, s[i]), acc)

Split(s) == SplitFrom(s, 1, <<>>, <<>>)

\* strconv.ParseUint(tok, 10, 64) on the short tokens drawn here
RECURSIVE DecimalValue(_, _, _)
DecimalValue(tok, i, acc) ==
    IF i > Len(tok) THEN acc ELSE DecimalValue(tok, i + 1, acc * 10 + DigitValue(tok[i]))

ParseUint(tok) ==
    IF Len(tok) = 0 \/ \E i \in 1..Len(tok) : tok[i] \notin Digits
    THEN [err |-> <<"strconv.ParseUint: invalid syntax">>, v |-> 0]
    ELSE [err |-> <<>>, v |-> DecimalValue(tok, 1, 0)]

\* ParseTokens passing over a token that is not a number instead of failing
RECURSIVE M_ParseTokens(_, _, _)
M_ParseTokens(toks, i, acc) ==
    IF i > Len(toks) THEN [err |-> <<>>, versions |-> acc]
    ELSE IF toks[i] = <<>> \/ ParseUint(toks[i]).err # <<>>
         THEN M_ParseTokens(toks, i + 1, acc)
    ELSE M_ParseTokens(toks, i + 1, Append(acc, ParseUint(toks[i]).v))

\* the loop that turns the value of --up / --down into a version list
\* (lines 203-213; the same loop at 215-225, 275-285 and 288-298)
RECURSIVE ParseTokens(_, _, _)
ParseTokens(toks, i, acc) ==
    IF i > Len(toks) THEN [err |-> <<>>, versions |-> acc]
    ELSE IF toks[i] = <<>> THEN ParseTokens(toks, i + 1, acc)
    ELSE IF ParseUint(toks[i]).err # <<>>
         THEN [err |-> Errorf("failed to parse version", ParseUint(toks[i]).err),
               versions |-> <<>>]
    ELSE ParseTokens(toks, i + 1, Append(acc, ParseUint(toks[i]).v))

ParseVersions(value) == ParseTokens(Split(value), 1, <<>>)

\* the persistent flags of the root command and their defaults (lines 64-67)
PersistentFlags ==
    ("dsn" :> "") @@ ("replication" :> "false") @@ ("cluster-name" :> "cluster")
        @@ ("dev" :> "false")

\* the flags registerSyncMigrate defines on `sync` (lines 251-252)
SyncFlags == ("up" :> <<>>) @@ ("down" :> <<>>) @@ PersistentFlags

\* the flags registerAsyncMigrate defines on `async` (lines 338-339)
AsyncFlags == ("up" :> <<>>) @@ ("down" :> <<>>) @@ PersistentFlags

\* (*FlagSet).Lookup(name).Value.String(): Lookup returns nil for a flag
\* that is not defined, and reading .Value of nil panics
Defined(flags, name) == name \in DOMAIN flags

\* the arguments the sync command builds from its flags (lines 199-202,
\* 231-247); a bool flag prints as "true" or "false", which ToLower keeps
SyncArgs(flags, up, down) ==
    [dsn |-> flags["dsn"], clusterName |-> flags["cluster-name"],
     replicationEnabled |-> (flags["replication"] = "true"),
     development |-> (flags["dev"] = "true"),
     upVersions |-> up, downVersions |-> down,
     certDir |-> flags["cert-dir"], certName |-> flags["cert-name"],
     keyName |-> flags["key-name"], caName |-> flags["ca-name"]]

\* RunE of `sync` (lines 198-248)
SyncRunE(flags, f, x) ==
    IF \E n \in {"dsn", "replication", "cluster-name", "dev", "up"} : ~Defined(flags, n)
    THEN Ret(<<>>, Panic)
    ELSE LET up == ParseVersions(flags["up"])
         IN  IF up.err # <<>> THEN Ret(<<>>, Error(up.err))
             ELSE IF ~Defined(flags, "down") THEN Ret(<<>>, Panic)
             ELSE LET down == ParseVersions(flags["down"])
                  IN  IF down.err # <<>> THEN Ret(<<>>, Error(down.err))
                      ELSE IF \E n \in {"cert-dir", "cert-name", "key-name", "ca-name"} :
                                  ~Defined(flags, n)
                      THEN Ret(<<>>, Panic)
                      ELSE RunSyncMigrate(SyncArgs(flags, up.versions, down.versions),
                                          f, x)

\* Async_Migrate choosing on the up list: up when it is non-empty, else down
M_Async_Migrate(up, down, x, l) ==
    IF Len(up) # 0
    THEN Ret(Append(l, Ev("MigrateUpAsync", up, x.migrate)),
             IF x.migrate THEN Ok ELSE Error(ExtErr("MigrateUpAsync")))
    ELSE Ret(Append(l, Ev("MigrateDownAsync", down, x.migrate)),
             IF x.migrate THEN Ok ELSE Error(ExtErr("MigrateDownAsync")))

\* RunE of `async`, lines 329-334
Async_Migrate(up, down, x, l) ==
    IF Len(down) # 0
    THEN Ret(Append(l, Ev("MigrateDownAsync", down, x.migrate)),
             IF x.migrate THEN Ok ELSE Error(ExtErr("MigrateDownAsync")))
    ELSE Ret(Append(l, Ev("MigrateUpAsync", up, x.migrate)),
             IF x.migrate THEN Ok ELSE Error(ExtErr("MigrateUpAsync")))

\* RunE of `async`, lines 317-327
Async_NewManager(flags, up, down, x, opts, l) ==
    LET l1 == Append(l, Ev("NewMigrationManager",
                           [ClusterName |-> flags["cluster-name"],
                            ReplicationEnabled |-> (flags["replication"] = "true"),
                            ConnOptions |-> opts,
                            Development |-> (flags["dev"] = "true")], x.manager))
    IN  IF ~x.manager
        THEN Ret(l1, Error(Errorf("failed to create migration manager",
                                  ExtErr("NewMigrationManager"))))
        ELSE Async_Migrate(up, down, x, l1)

\* RunE of `async`, lines 311-315
Async_Open(flags, up, down, x, opts, l) ==
    LET l1 == Append(l, Ev("Open", opts, x.open))
    IN  IF ~x.open
        THEN Ret(l1, Error(Errorf("failed to open connection", ExtErr("Open"))))
        ELSE Async_NewManager(flags, up, down, x, opts, l1)

\* RunE of `async`, lines 305-309
Async_ParseDSN(flags, up, down, x) ==
    LET e == ParseDSN(flags["dsn"])
        l1 == <<Ev("ParseDSN", <<flags["dsn"]>>, e = <<>>)>>
    IN  IF e # <<>>
        THEN Ret(l1, Error(Errorf("failed to parse dsn", e)))
        ELSE Async_Open(flags, up, down, x, [dsn |-> flags["dsn"], TLS |-> <<>>], l1)

\* RunE of `async`, line 301
Async_BothGiven(up, down) == Len(up) # 0 /\ Len(down) # 0

\* RunE of `async` (lines 265-335)
AsyncRunE(flags, x) ==
    IF \E n \in {"dsn", "replication", "cluster-name", "dev", "up"} : ~Defined(flags, n)
    THEN Ret(<<>>, Panic)
    ELSE LET up == ParseVersions(flags["up"])
         IN  IF up.err # <<>> THEN Ret(<<>>, Error(up.err))
             ELSE IF ~Defined(flags, "down") THEN Ret(<<>>, Panic)
             ELSE LET down == ParseVersions(flags["down"])
                  IN  IF down.err # <<>> THEN Ret(<<>>, Error(down.err))
                      ELSE IF Async_BothGiven(up.versions, down.versions)
                      THEN Ret(<<>>, Error(<<"cannot provide both up and down migrations">>))
                      ELSE Async_ParseDSN(flags, up.versions, down.versions, x)

\* cmd.Execute (line 72) for `sync`: a flag the command does not define is
\* rejected by the flag parser; otherwise RunE runs on defaults overridden
\* by the command line.  The commands are run in an environment that sets
\* none of the flag variables (DSN, UP, ...), where PersistentPreRun
\* (lines 40-56) changes no flag.
ExecuteSync(cl, f, x) ==
    IF \E n \in DOMAIN cl : n \notin DOMAIN SyncFlags
    THEN Ret(<<>>, Error(<<"unknown flag">>))
    ELSE SyncRunE(cl @@ SyncFlags, f, x)

\* cmd.Execute (line 72) for `async`
ExecuteAsync(cl, x) ==
    IF \E n \in DOMAIN cl : n \notin DOMAIN AsyncFlags
    THEN Ret(<<>>, Error(<<"unknown flag">>))
    ELSE AsyncRunE(cl @@ AsyncFlags, x)

\* the flags declared with BoolVar (lines 65, 67)
BoolFlags == {"replication", "dev"}

\* strconv.ParseBool, which (*boolValue).Set applies to the value it is given
ParseBool(v) ==
    IF v \in {"1", "t", "T", "TRUE", "true", "True"}
    THEN [err |-> <<>>, v |-> "true"]
    ELSE IF v \in {"0", "f", "F", "FALSE", "false", "False"}
    THEN [err |-> <<>>, v |-> "false"]
    ELSE [err |-> <<"strconv.ParseBool: invalid syntax">>, v |-> "false"]

\* the variable AutomaticEnv reads for a flag: the name with "-" replaced
\* by "_" (line 43), in upper case
EnvKey(name) ==
    CASE name = "dsn" -> "DSN"
      [] name = "replication" -> "REPLICATION"
      [] name = "cluster-name" -> "CLUSTER_NAME"
      [] name = "dev" -> "DEV"
      [] name = "up" -> "UP"
      [] name = "down" -> "DOWN"

\* the empty value of a flag's type: --up / --down hold character sequences
EmptyValue(name) == IF name \in {"up", "down"} THEN <<>> ELSE ""

\* v.IsSet(configName), line 48: the variable exists and is not empty
IsSet(e, name) ==
    /\ EnvKey(name) \in DOMAIN e
    /\ e[EnvKey(name)] # EmptyValue(name)

\* v.Get(configName), line 49
Get(e, name) == e[EnvKey(name)]

\* PersistentPreRun without the f.Changed test: the environment is applied
\* to every flag
M_PersistentPreRun(defined, cl, e) ==
    [panic |-> \E n \in DOMAIN defined :
                  /\ IsSet(e, n)
                  /\ n \in BoolFlags
                  /\ ParseBool(Get(e, n)).err # <<>>,
     flags |-> [n \in DOMAIN defined |->
                  IF IsSet(e, n)
                  THEN IF n \in BoolFlags THEN ParseBool(Get(e, n)).v
                       ELSE Get(e, n)
                  ELSE IF n \in DOMAIN cl THEN cl[n]
                  ELSE defined[n]]]

\* PersistentPreRun (lines 40-56) on the flags of the command being run:
\* `defined` holds their defaults, `cl` the flags given on the command line
\* (f.Changed).  The panic of line 52 is raised when Set rejects the value.
PersistentPreRun(defined, cl, e) ==
    [panic |-> \E n \in DOMAIN defined :
                  /\ n \notin DOMAIN cl
                  /\ IsSet(e, n)
                  /\ n \in BoolFlags
                  /\ ParseBool(Get(e, n)).err # <<>>,
     flags |-> [n \in DOMAIN defined |->
                  IF n \in DOMAIN cl THEN cl[n]
                  ELSE IF IsSet(e, n)
                       THEN IF n \in BoolFlags THEN ParseBool(Get(e, n)).v
                            ELSE Get(e, n)
                  ELSE defined[n]]]

\* the panic of line 52
SetPanic == [status |-> "panic", err |-> <<"invalid argument for flag">>]

\* cmd.Execute (line 72) for `sync` in environment e: the flag parser, then
\* PersistentPreRun, then RunE
SyncCommand(cl, e, f, x) ==
    IF \E n \in DOMAIN cl : n \notin DOMAIN SyncFlags
    THEN [run |-> Ret(<<>>, Error(<<"unknown flag">>)), flags |-> <<>>]
    ELSE IF PersistentPreRun(SyncFlags, cl, e).panic
    THEN [run |-> Ret(<<>>, SetPanic), flags |-> <<>>]
    ELSE [run |-> SyncRunE(PersistentPreRun(SyncFlags, cl, e).flags, f, x),
          flags |-> PersistentPreRun(SyncFlags, cl, e).flags]

\* cmd.Execute (line 72) for `async` in environment e
AsyncCommand(cl, e, x) ==
    IF \E n \in DOMAIN cl : n \notin DOMAIN AsyncFlags
    THEN [run |-> Ret(<<>>, Error(<<"unknown flag">>)), flags |-> <<>>]
    ELSE IF PersistentPreRun(AsyncFlags, cl, e).panic
    THEN [run |-> Ret(<<>>, SetPanic), flags |-> <<>>]
    ELSE [run |-> AsyncRunE(PersistentPreRun(AsyncFlags, cl, e).flags, x),
          flags |-> PersistentPreRun(AsyncFlags, cl, e).flags]


(***************************************************************************)
(* State machine                                                           *)
(***************************************************************************)
\* outcomes drawn for a migration run (no Ping on that path)
SyncOutcomes == {x \in ExtOutcomes : x.ping}

\* outcomes drawn for a connection test (only Open and Ping are reached)
ConnOutcomes ==
    {x \in ExtOutcomes : x.manager /\ x.bootstrap /\ x.squashed /\ x.migrate}

\* arguments drawn for the pre-flight entry points, which read no version list
ProbeArgsSet == {a \in MigrateArgsSet : a.UpVersions = <<>> /\ a.DownVersions = <<>>}

\* an environment that sets no variable
NoEnv == <<>>

\* no command has run
NoFlags == <<>>

Init ==
    /\ fs \in FileSystems
    /\ entry = "idle"
    /\ args = <<>>
    /\ log = <<>>
    /\ result = NoResult
    /\ env = NoEnv
    /\ cmdFlags = NoFlags

Returns(name, a, r) ==
    /\ entry' = name
    /\ args' = a
    /\ log' = r.log
    /\ result' = r.res
    /\ cmdFlags' = NoFlags
    /\ UNCHANGED <<fs, env>>

CallRunSyncMigrate ==
    /\ entry = "idle"
    /\ \E a \in MigrateArgsSet, x \in SyncOutcomes :
           Returns("TLSMigrator.RunSyncMigrate", a, TLSMigrator_RunSyncMigrate(a, fs, x))

CallRunSyncMigrateWithDefaults ==
    /\ entry = "idle"
    /\ \E dsn \in DSNs, c \in ClusterNames, d \in CertDirs, x \in SyncOutcomes :
           Returns("TLSMigrator.RunSyncMigrateWithDefaults",
                   [dsn |-> dsn, clusterName |-> c, certDir |-> d],
                   TLSMigrator_RunSyncMigrateWithDefaults(dsn, c, d, fs, x))

CallRunUpMigrations ==
    /\ entry = "idle"
    /\ \E dsn \in DSNs, c \in ClusterNames, d \in CertDirs, v \in VersionLists,
          x \in SyncOutcomes :
           Returns("TLSMigrator.RunUpMigrations",
                   [dsn |-> dsn, clusterName |-> c, certDir |-> d, versions |-> v],
                   TLSMigrator_RunUpMigrations(dsn, c, d, v, fs, x))

CallRunDownMigrations ==
    /\ entry = "idle"
    /\ \E dsn \in DSNs, c \in ClusterNames, d \in CertDirs, v \in VersionLists,
          x \in SyncOutcomes :
           Returns("TLSMigrator.RunDownMigrations",
                   [dsn |-> dsn, clusterName |-> c, certDir |-> d, versions |-> v],
                   TLSMigrator_RunDownMigrations(dsn, c, d, v, fs, x))

CallValidateTLSConfig ==
    /\ entry = "idle"
    /\ \E a \in ProbeArgsSet :
           Returns("TLSMigrator.ValidateTLSConfig", a, TLSMigrator_ValidateTLSConfig(a, fs))

CallTestConnection ==
    /\ entry = "idle"
    /\ \E a \in ProbeArgsSet, x \in ConnOutcomes :
           Returns("TLSMigrator.TestConnection", a, TLSMigrator_TestConnection(a, fs, x))

\* values given to --up / --down on the command line
FlagStrings == {<<>>, <<"1">>, <<"2", ",", "1">>, <<"1", ",", "x">>}

\* command lines giving --dsn, --up and --down
CmdLines ==
    {("dsn" :> d) @@ ("up" :> u) @@ ("down" :> w) :
        d \in DSNs, u \in FlagStrings, w \in FlagStrings}

\* the certificate flags, as a user would give them to `sync`
CertFlags ==
    ("cert-dir" :> "/certs") @@ ("cert-name" :> DefaultCertName)
        @@ ("key-name" :> DefaultKeyName) @@ ("ca-name" :> DefaultCAName)

SyncCmdLines == CmdLines \cup {cl @@ CertFlags : cl \in CmdLines}

CallMainRunSyncMigrate ==
    /\ entry = "idle"
    /\ \E a \in RunSyncMigrateArgsSet, x \in SyncOutcomes :
           Returns("main.RunSyncMigrate", a, RunSyncMigrate(a, fs, x))

RunSyncCommand ==
    /\ entry = "idle"
    /\ \E cl \in SyncCmdLines, x \in SyncOutcomes :
           Returns("sync", cl, ExecuteSync(cl, fs, x))

RunAsyncCommand ==
    /\ entry = "idle"
    /\ \E cl \in CmdLines, x \in SyncOutcomes :
           Returns("async", cl, ExecuteAsync(cl, x))

Next ==
    \/ CallRunSyncMigrate
    \/ CallRunSyncMigrateWithDefaults
    \/ CallRunUpMigrations
    \/ CallRunDownMigrations
    \/ CallValidateTLSConfig
    \/ CallTestConnection
    \/ CallMainRunSyncMigrate
    \/ RunSyncCommand
    \/ RunAsyncCommand

Spec == Init /\ [][Next]_vars

(***************************************************************************)
(* The commands on longer --up / --down values                             *)
(***************************************************************************)
MaxTokens == 3

\* what a user writes between two commas
Tokens == {<<>>, <<"1">>, <<"2">>, <<"3">>, <<"x">>, <<"1", "2">>}

\* the tokens written one after the other with "," between them
RECURSIVE JoinTokens(_)
JoinTokens(toks) ==
    IF Len(toks) = 1 THEN toks[1]
    ELSE toks[1] \o <<",">> \o JoinTokens(Tail(toks))

\* values of --up / --down of up to MaxTokens tokens
VersionStrings ==
    {JoinTokens(t) : t \in UNION {[1..n -> Tokens] : n \in 1..MaxTokens}}

\* command lines giving one such value, to --up or to --down
VersionCmdLines ==
    {("dsn" :> GoodDSN) @@ ("up" :> u) @@ ("down" :> <<>>) : u \in VersionStrings}
    \cup {("dsn" :> GoodDSN) @@ ("up" :> <<>>) @@ ("down" :> w) :
              w \in VersionStrings}

\* the host the commands run on has the certificate files deployed
DeployedFileSystems ==
    {f \in FileSystems : \A p \in DOMAIN f : f[p] = "pem"}

InitVersions ==
    /\ fs \in DeployedFileSystems
    /\ entry = "idle"
    /\ args = <<>>
    /\ log = <<>>
    /\ result = NoResult
    /\ env = NoEnv
    /\ cmdFlags = NoFlags

\* a command returning: what Returns records, and the flags RunE was run on
CommandReturns(name, a, c) ==
    /\ entry' = name
    /\ args' = a
    /\ log' = c.run.log
    /\ result' = c.run.res
    /\ cmdFlags' = c.flags
    /\ UNCHANGED <<fs, env>>

SyncOnVersions ==
    /\ entry = "idle"
    /\ \E cl \in VersionCmdLines, x \in SyncOutcomes :
           CommandReturns("sync", cl, SyncCommand(cl, env, fs, x))

AsyncOnVersions ==
    /\ entry = "idle"
    /\ \E cl \in VersionCmdLines, x \in SyncOutcomes :
           CommandReturns("async", cl, AsyncCommand(cl, env, x))

NextVersions ==
    \/ SyncOnVersions
    \/ AsyncOnVersions

SpecVersions == InitVersions /\ [][NextVersions]_vars

(***************************************************************************)
(* The commands in an environment that sets flag variables                 *)
(***************************************************************************)
\* what a command line gives a flag when it gives it
GivenValue(name) ==
    CASE name = "dsn" -> BadDSN
      [] name = "replication" -> "false"
      [] name = "cluster-name" -> "prod"
      [] name = "dev" -> "false"
      [] name = "up" -> <<"1">>
      [] name = "down" -> <<"2">>

\* command lines giving any of the six flags
EnvCmdLines ==
    {[n \in given |-> GivenValue(n)] : given \in SUBSET DOMAIN AsyncFlags}

\* the environments in which `name` is unset or has one of `values`
Setting(name, values) == {NoEnv} \cup {name :> v : v \in values}

\* environments: an empty CLUSTER_NAME, a REPLICATION that is not a boolean
Envs ==
    {d @@ c @@ r @@ v @@ u @@ w :
        d \in Setting("DSN", {GoodDSN}),
        c \in Setting("CLUSTER_NAME", {"", "staging"}),
        r \in Setting("REPLICATION", {"true", "maybe"}),
        v \in Setting("DEV", {"true"}),
        u \in Setting("UP", {<<"2">>}),
        w \in Setting("DOWN", {<<"1">>})}

\* outcomes drawn for `async`, which has no bootstrap and no squashed step
CommandOutcomes == {x \in SyncOutcomes : x.bootstrap /\ x.squashed}

InitEnv ==
    /\ fs \in DeployedFileSystems
    /\ entry = "idle"
    /\ args = <<>>
    /\ log = <<>>
    /\ result = NoResult
    /\ env \in Envs
    /\ cmdFlags = NoFlags

SyncInEnv ==
    /\ entry = "idle"
    /\ \E cl \in EnvCmdLines, x \in CommandOutcomes :
           CommandReturns("sync", cl, SyncCommand(cl, env, fs, x))

AsyncInEnv ==
    /\ entry = "idle"
    /\ \E cl \in EnvCmdLines, x \in CommandOutcomes :
           CommandReturns("async", cl, AsyncCommand(cl, env, x))

NextEnv ==
    \/ SyncInEnv
    \/ AsyncInEnv

SpecEnv == InitEnv /\ [][NextEnv]_vars


(***************************************************************************)
(* Properties                                                              *)
(***************************************************************************)
LibSyncEntries ==
    {"TLSMigrator.RunSyncMigrate", "TLSMigrator.RunSyncMigrateWithDefaults",
     "TLSMigrator.RunUpMigrations", "TLSMigrator.RunDownMigrations"}

Last(l) == l[Len(l)]

CountCalls(l, calls) == Cardinality({i \in 1..Len(l) : l[i].call \in calls})

Performed(call) == \E i \in 1..Len(log) : log[i].call = call

Succeeded(call) == \E i \in 1..Len(log) : log[i].call = call /\ log[i].ok

BothError == Error(<<"cannot provide both up and down migrations">>)

CertPath == Sprintf("/certs", DefaultCertName)

KeyPath == Sprintf("/certs", DefaultKeyName)

CAPath == Sprintf("/certs", DefaultCAName)

(* C1: whenever both the up list and the down list are non-empty, the      *)
(* library RunSyncMigrate, the CLI RunSyncMigrate and the CLI async        *)
(* command return "cannot provide both up and down migrations" and have    *)
(* performed no external step at all: no DSN parse, no file read, no       *)
(* connection, no manager.                                                 *)
C1_BothRejectedBeforeIO ==
    /\ (entry = "TLSMigrator.RunSyncMigrate"
            /\ args.UpVersions # <<>> /\ args.DownVersions # <<>>)
        => (result = BothError /\ log = <<>>)
    /\ (entry = "main.RunSyncMigrate"
            /\ args.upVersions # <<>> /\ args.downVersions # <<>>)
        => (result = BothError /\ log = <<>>)
    /\ (entry = "async"
            /\ ParseVersions(args["up"]).err = <<>>
            /\ ParseVersions(args["down"]).err = <<>>
            /\ ParseVersions(args["up"]).versions # <<>>
            /\ ParseVersions(args["down"]).versions # <<>>)
        => (result = BothError /\ log = <<>>)

C1_Witness ==
    /\ entry = "TLSMigrator.RunSyncMigrate"
    /\ args.UpVersions # <<>> /\ args.DownVersions # <<>>
    /\ args.DSN = BadDSN
    /\ fs[CertPath] = "missing"
    /\ result = BothError

\* the position of an external step in a synchronous migration run
SyncRank(call) ==
    CASE call = "ParseDSN" -> 1
      [] call = "LoadX509KeyPair" -> 2
      [] call = "ReadFile" -> 3
      [] call = "Open" -> 4
      [] call = "NewMigrationManager" -> 5
      [] call = "Bootstrap" -> 6
      [] call = "RunSquashedMigrations" -> 7
      [] call \in {"MigrateUpSync", "MigrateDownSync"} -> 8
      [] OTHER -> 0

(* C2: in every run of the library RunSyncMigrate (directly or through its *)
(* wrappers) the steps performed are an initial part of parse-DSN, load    *)
(* key pair, read CA, open, create manager, bootstrap, run-squashed,       *)
(* migrate, each once and none skipped; every step but the last succeeded; *)
(* the run ends with an error exactly when no step ran (argument check) or *)
(* the last step failed, and with success only after a migrate step.       *)
C2_StagesInOrder ==
    entry \in LibSyncEntries =>
        /\ \A i \in 1..Len(log) : SyncRank(log[i].call) = i
        /\ \A i \in 1..Len(log) - 1 : log[i].ok
        /\ result.status \in {"ok", "error"}
        /\ result.status = "error" <=> (log = <<>> \/ ~Last(log).ok)
        /\ result.status = "ok" => (log # <<>> /\ SyncRank(Last(log).call) = 8)

C2_Witness ==
    /\ entry = "TLSMigrator.RunSyncMigrate"
    /\ Len(log) = 6
    /\ Last(log).call = "Bootstrap" /\ ~Last(log).ok
    /\ result.status = "error"

\* the context RunSyncMigrate puts in front of the error of a failing step
StageContext(call) ==
    CASE call = "ParseDSN" -> "failed to parse dsn"
      [] call \in {"LoadX509KeyPair", "ReadFile"} -> "failed to get tls config"
      [] call = "Open" -> "failed to open connection"
      [] call = "NewMigrationManager" -> "failed to create migration manager"
      [] call = "Bootstrap" -> "failed to bootstrap migrations"
      [] call = "RunSquashedMigrations" -> "failed to run squashed migrations"
      [] OTHER -> "failed to run migrations"

MigrateCalls == {"MigrateUpSync", "MigrateDownSync"}

C4_ExactlyOneMigrate ==
    /\ (entry = "TLSMigrator.RunSyncMigrate" /\ Succeeded("RunSquashedMigrations")) =>
        /\ CountCalls(log, MigrateCalls) = 1
        /\ Last(log).call =
              (IF args.DownVersions # <<>> THEN "MigrateDownSync" ELSE "MigrateUpSync")
        /\ Last(log).arg =
              (IF args.DownVersions # <<>> THEN args.DownVersions ELSE args.UpVersions)
    /\ (entry = "TLSMigrator.RunSyncMigrateWithDefaults"
            /\ Succeeded("RunSquashedMigrations")) =>
        /\ CountCalls(log, MigrateCalls) = 1
        /\ Last(log).call = "MigrateUpSync"
        /\ Last(log).arg = <<>>

C4_Witness ==
    /\ entry = "TLSMigrator.RunSyncMigrate"
    /\ args.UpVersions = <<>> /\ args.DownVersions = <<>>
    /\ log # <<>>
    /\ Last(log).call = "MigrateUpSync" /\ Last(log).arg = <<>>
    /\ result = Ok

(* C5: RunDownMigrations never causes MigrateUpSync to be invoked, for any *)
(* versions list, the empty one included.                                  *)
C5_DownNeverMigratesUp ==
    entry = "TLSMigrator.RunDownMigrations" => ~Performed("MigrateUpSync")

(* C6: TestConnection closes the connection exactly once, as its last      *)
(* step, when the open succeeded, whatever Ping returned, and performs no  *)
(* close when the open failed or was never reached.                        *)
C6_ClosedIffOpened ==
    entry = "TLSMigrator.TestConnection" =>
        /\ CountCalls(log, {"Close"}) = (IF Succeeded("Open") THEN 1 ELSE 0)
        /\ Succeeded("Open") => (Last(log).call = "Close" /\ Performed("Ping"))

C6_Witness ==
    /\ entry = "TLSMigrator.TestConnection"
    /\ Succeeded("Open")
    /\ Performed("Ping") /\ ~Succeeded("Ping")
    /\ CountCalls(log, {"Close"}) = 1
    /\ result.status = "error"

(* C7 as stated: TestConnection builds the TLS configuration before it     *)
(* parses the DSN, so with unloadable certificate files and an unparsable  *)
(* DSN the failure reported is the TLS-config failure.                     *)
C7_TLSBeforeDSN ==
    (entry = "TLSMigrator.TestConnection"
        /\ ParseDSN(args.DSN) # <<>>
        /\ TLSMigrator_createTLSConfig(args, fs).err # <<>>)
    => (result.status = "error" /\ result.err[1] = "failed to create TLS config")

\* the position of an external step in TestConnection
TestRank(call) ==
    CASE call = "ParseDSN" -> 1
      [] call = "LoadX509KeyPair" -> 2
      [] call = "ReadFile" -> 3
      [] call = "Open" -> 4
      [] call = "Ping" -> 5
      [] call = "Close" -> 6
      [] OTHER -> 0

TestContext(call) ==
    CASE call = "ParseDSN" -> "failed to parse DSN"
      [] call \in {"LoadX509KeyPair", "ReadFile"} -> "failed to create TLS config"
      [] call = "Open" -> "failed to open connection"
      [] OTHER -> "failed to ping database"

(* C7 amended: TestConnection parses the DSN, then builds the TLS          *)
(* configuration, then opens, probes and closes, in that order; the        *)
(* failure reported is that of the first failing step in this order, so    *)
(* with an unparsable DSN the DSN failure is reported and no certificate   *)
(* file is read, whatever the state of the certificate files.              *)
C7_DSNBeforeTLS ==
    entry = "TLSMigrator.TestConnection" =>
        /\ \A i \in 1..Len(log) : TestRank(log[i].call) = i
        /\ \A i \in 1..Len(log) :
              (~log[i].ok /\ \A j \in 1..(i - 1) : log[j].ok)
                  => (result.status = "error"
                        /\ result.err[1] = TestContext(log[i].call))
        /\ ParseDSN(args.DSN) # <<>> =>
              (Len(log) = 1 /\ result.status = "error"
                /\ result.err[1] = "failed to parse DSN")

C7_Witness ==
    /\ entry = "TLSMigrator.TestConnection"
    /\ ParseDSN(args.DSN) # <<>>
    /\ TLSMigrator_createTLSConfig(args, fs).err # <<>>
    /\ result.status = "error"
    /\ result.err[1] = "failed to parse DSN"

\* the states of the three files ValidateTLSConfig was pointed at
CertState == FileState(fs, Sprintf(args.CertDir, args.CertName))

KeyState == FileState(fs, Sprintf(args.CertDir, args.KeyName))

CAState == FileState(fs, Sprintf(args.CertDir, args.CAName))

(* C8: ValidateTLSConfig succeeds when the three files hold a matching     *)
(* certificate/key pair and well-formed CA certificates; when exactly one  *)
(* of the three files is missing it fails with the error naming that file: *)
(* "certificate file", "key file" or "CA file" "not accessible".           *)
C8_ValidateNamesMissingFile ==
    entry = "TLSMigrator.ValidateTLSConfig" =>
        /\ (CertState = "pem" /\ KeyState = "pem" /\ CAState = "pem") => result = Ok
        /\ (CertState = "missing" /\ KeyState # "missing" /\ CAState # "missing") =>
              (result.status = "error"
                /\ result.err[1] = "certificate file not accessible")
        /\ (CertState # "missing" /\ KeyState = "missing" /\ CAState # "missing") =>
              (result.status = "error" /\ result.err[1] = "key file not accessible")
        /\ (CertState # "missing" /\ KeyState # "missing" /\ CAState = "missing") =>
              (result.status = "error" /\ result.err[1] = "CA file not accessible")

C8_Witness ==
    /\ entry = "TLSMigrator.ValidateTLSConfig"
    /\ CertState = "garbage" /\ KeyState = "missing" /\ CAState = "pem"
    /\ result.status = "error"
    /\ result.err[1] = "key file not accessible"

(* C9: with a valid certificate/key pair, ValidateTLSConfig on a readable  *)
(* CA file that holds no PEM certificate fails with exactly "failed to     *)
(* parse CA certificate"; on a missing CA file it fails with "CA file not  *)
(* accessible" and on an unreadable one with "failed to read CA            *)
(* certificate", so the parse failure is told apart from both.             *)
C9_MalformedCADistinct ==
    (entry = "TLSMigrator.ValidateTLSConfig" /\ CertState = "pem" /\ KeyState = "pem") =>
        /\ CAState = "garbage" => result = Error(<<"failed to parse CA certificate">>)
        /\ CAState = "missing" =>
              (result.status = "error" /\ result.err[1] = "CA file not accessible")
        /\ CAState = "unreadable" =>
              (result.status = "error"
                /\ result.err[1] = "failed to read CA certificate")

C9_Witness ==
    /\ entry = "TLSMigrator.ValidateTLSConfig"
    /\ CertState = "pem" /\ KeyState = "pem" /\ CAState = "garbage"
    /\ Succeeded("ReadFile")
    /\ result = Error(<<"failed to parse CA certificate">>)

(* C10: the `sync` command accepts --cert-dir, --cert-name, --key-name and *)
(* --ca-name, and whenever its --up and --down values parse it runs        *)
(* RunSyncMigrate (which either rejects the two lists or starts with the   *)
(* DSN parse); it never crashes while reading a flag.                      *)
C10_SyncRunsMigration ==
    (entry = "sync"
        /\ ParseVersions(args["up"]).err = <<>>
        /\ ParseVersions(args["down"]).err = <<>>)
    => /\ result.status # "panic"
       /\ result # Error(<<"unknown flag">>)
       /\ (result = BothError \/ Performed("ParseDSN"))

(***************************************************************************)
(* Properties of the commands                                              *)
(***************************************************************************)
\* the value holds a character that is neither a digit nor a comma, so one
\* of its tokens is not a number
HasBadChar(value) ==
    \E i \in 1..Len(value) : value[i] \notin Digits \cup {","}

DigitChar(d) == CHOOSE c \in Digits : DigitValue(c) = d

\* a number as it is written in base 10
RECURSIVE Decimal(_)
Decimal(v) ==
    IF v < 10 THEN <<DigitChar(v)>>
    ELSE Decimal(v \div 10) \o <<DigitChar(v % 10)>>

\* a version list as a user writes it: "1,2,3" for <<1, 2, 3>>
RECURSIVE Written(_)
Written(vs) ==
    IF Len(vs) = 0 THEN <<>>
    ELSE IF Len(vs) = 1 THEN Decimal(vs[1])
    ELSE Decimal(vs[1]) \o <<",">> \o Written(Tail(vs))

WrittenLists == UNION {[1..n -> {1, 2, 3, 12}] : n \in 0..MaxTokens}

ParseError ==
    result.status = "error" /\ result.err[1] = "failed to parse version"

(* C11: a --up / --down value that writes a version list ("1,2,3") is      *)
(* parsed into that list, in the order written, and handed to the          *)
(* migration; a value with a token that is not a base-10 number ("1,x,3")  *)
(* makes the command return "failed to parse version" with no external     *)
(* step performed (no DSN parse, no Open, no migration manager call); a    *)
(* value of digits and commas only is never a parse error.                 *)
C11_VersionsParsed ==
    entry \in {"sync", "async"} =>
        /\ (HasBadChar(args["up"]) \/ HasBadChar(args["down"])) =>
              (ParseError /\ log = <<>>)
        /\ (~HasBadChar(args["up"]) /\ ~HasBadChar(args["down"])) => ~ParseError
        /\ (log # <<>> /\ Last(log).call = "MigrateUpAsync") =>
              \A vs \in WrittenLists :
                  args["up"] = Written(vs) => Last(log).arg = vs
        /\ (log # <<>> /\ Last(log).call = "MigrateDownAsync") =>
              \A vs \in WrittenLists :
                  args["down"] = Written(vs) => Last(log).arg = vs

C11_Witness ==
    /\ entry = "async"
    /\ args["up"] = <<"1", ",", "2", ",", "3">>
    /\ log # <<>>
    /\ Last(log).call = "MigrateUpAsync"
    /\ Last(log).arg = <<1, 2, 3>>

\* the six flags of `sync` and `async`
FlagNames == DOMAIN AsyncFlags

\* the variable of flag n exists in the environment
InEnv(n) == EnvKey(n) \in DOMAIN env

(* C12 as stated: for every flag, a value given on the command line is     *)
(* kept; a flag not given takes the value of its environment variable      *)
(* (upper-cased name, "-" replaced by "_") whenever that variable is set;  *)
(* otherwise the flag keeps its default.                                   *)
C12_FlagEnvDefault ==
    entry \in {"sync", "async"} =>
        /\ result # SetPanic
        /\ \A n \in FlagNames :
              /\ n \in DOMAIN args => cmdFlags[n] = args[n]
              /\ (n \notin DOMAIN args /\ InEnv(n)) => cmdFlags[n] = env[EnvKey(n)]
              /\ (n \notin DOMAIN args /\ ~InEnv(n)) => cmdFlags[n] = AsyncFlags[n]

\* a variable that applies to flag n: n was not given and the variable holds
\* a non-empty value
Applies(n) == n \notin DOMAIN args /\ InEnv(n) /\ env[EnvKey(n)] # EmptyValue(n)

(* C12, amended: the precedence holds with "set" read as "set to a         *)
(* non-empty value"; a variable that applies to a boolean flag             *)
(* (replication, dev) with a value that is not a boolean makes the command *)
(* panic before it runs, and that is the only case in which no flag value  *)
(* is established.                                                         *)
C12_PrecedenceOrPanic ==
    entry \in {"sync", "async"} =>
        /\ result = SetPanic <=>
              \E n \in BoolFlags : Applies(n) /\ ParseBool(env[EnvKey(n)]).err # <<>>
        /\ result # SetPanic =>
              \A n \in FlagNames :
                  /\ n \in DOMAIN args => cmdFlags[n] = args[n]
                  /\ (Applies(n) /\ n \in BoolFlags) =>
                        cmdFlags[n] = ParseBool(env[EnvKey(n)]).v
                  /\ (Applies(n) /\ n \notin BoolFlags) =>
                        cmdFlags[n] = env[EnvKey(n)]
                  /\ (n \notin DOMAIN args /\ ~Applies(n)) =>
                        cmdFlags[n] = AsyncFlags[n]

\* cluster-name from the environment, replication from the command line
\* over the environment, dev from its default, all reaching the manager
C12_Witness ==
    /\ entry = "async"
    /\ "cluster-name" \notin DOMAIN args
    /\ InEnv("cluster-name") /\ env["CLUSTER_NAME"] = "staging"
    /\ "replication" \in DOMAIN args
    /\ InEnv("replication") /\ env["REPLICATION"] = "true"
    /\ "dev" \notin DOMAIN args /\ ~InEnv("dev")
    /\ \E i \in 1..Len(log) :
          /\ log[i].call = "NewMigrationManager"
          /\ log[i].arg.ClusterName = "staging"
          /\ log[i].arg.ReplicationEnabled = FALSE
          /\ log[i].arg.Development = FALSE

AsyncCalls == {"MigrateUpAsync", "MigrateDownAsync"}

\* the steps of the sync path that the async path leaves out
SyncOnlyCalls ==
    {"Stat", "LoadX509KeyPair", "ReadFile", "Bootstrap", "RunSquashedMigrations",
     "MigrateUpSync", "MigrateDownSync"}

(* C13: the `async` command reads no certificate file, opens the           *)
(* connection and builds the manager with no TLS configuration on the      *)
(* options, performs neither Bootstrap nor RunSquashedMigrations, and      *)
(* after a successful Open and manager construction invokes exactly one    *)
(* asynchronous migration, once and last: MigrateDownAsync with the down   *)
(* list when that list is non-empty, MigrateUpAsync with the up list       *)
(* otherwise; without both successes it invokes none.                      *)
C13_AsyncPath ==
    entry = "async" =>
        /\ \A i \in 1..Len(log) :
              /\ log[i].call \notin SyncOnlyCalls
              /\ log[i].call = "Open" => log[i].arg.TLS = <<>>
              /\ log[i].call = "NewMigrationManager" =>
                    log[i].arg.ConnOptions.TLS = <<>>
        /\ (Succeeded("Open") /\ Succeeded("NewMigrationManager")) =>
              /\ CountCalls(log, AsyncCalls) = 1
              /\ Last(log).call \in AsyncCalls
              /\ ParseVersions(args["down"]).versions # <<>> =>
                    Last(log) = Ev("MigrateDownAsync", ParseVersions(args["down"]).versions,
                                   result = Ok)
              /\ ParseVersions(args["down"]).versions = <<>> =>
                    Last(log) = Ev("MigrateUpAsync", ParseVersions(args["up"]).versions,
                                   result = Ok)
        /\ ~(Succeeded("Open") /\ Succeeded("NewMigrationManager")) =>
              CountCalls(log, AsyncCalls) = 0

C13_Witness ==
    /\ entry = "async"
    /\ args["down"] = <<"2", ",", "1">>
    /\ Succeeded("Open") /\ Succeeded("NewMigrationManager")
    /\ Last(log) = Ev("MigrateDownAsync", <<2, 1>>, TRUE)
    /\ result = Ok

(* C14: ValidateTLSConfig is strictly stronger than createTLSConfig: on    *)
(* the files and arguments on which ValidateTLSConfig succeeds,            *)
(* createTLSConfig succeeds too; and on a matching certificate/key pair    *)
(* with a readable CA file that holds no PEM certificate, createTLSConfig  *)
(* succeeds while ValidateTLSConfig fails.                                 *)
C14_ValidateStronger ==
    entry = "TLSMigrator.ValidateTLSConfig" =>
        /\ result = Ok => TLSMigrator_createTLSConfig(args, fs).err = <<>>
        /\ (CertState = "pem" /\ KeyState = "pem" /\ CAState = "garbage") =>
              /\ TLSMigrator_createTLSConfig(args, fs).err = <<>>
              /\ result.status = "error"

C14_Witness ==
    /\ entry = "TLSMigrator.ValidateTLSConfig"
    /\ CertState = "pem" /\ KeyState = "pem" /\ CAState = "garbage"
    /\ TLSMigrator_createTLSConfig(args, fs).err = <<>>
    /\ TLSMigrator_createTLSConfig(args, fs).tls # <<>>
    /\ result.status = "error"

\* the library's MigrateArgs as the CLI's runSyncMigrateArgs, and back
ToMainArgs(a) ==
    [dsn |-> a.DSN, clusterName |-> a.ClusterName,
     replicationEnabled |-> a.ReplicationEnabled, development |-> a.Development,
     upVersions |-> a.UpVersions, downVersions |-> a.DownVersions,
     certDir |-> a.CertDir, certName |-> a.CertName, keyName |-> a.KeyName,
     caName |-> a.CAName]

ToMigrateArgs(a) ==
    [DSN |-> a.dsn, ClusterName |-> a.clusterName,
     ReplicationEnabled |-> a.replicationEnabled, Development |-> a.development,
     UpVersions |-> a.upVersions, DownVersions |-> a.downVersions,
     CertDir |-> a.certDir, CertName |-> a.certName, KeyName |-> a.keyName,
     CAName |-> a.caName]

(* C15: the library method TLSMigrator.RunSyncMigrate and the CLI function *)
(* RunSyncMigrate mirror each other: whatever one of them did and returned *)
(* on its arguments, files and outcomes of the external steps, the other   *)
(* does and returns on the same arguments, files and outcomes - the same   *)
(* external steps with the same parameters in the same order, and the same *)
(* success or error.                                                       *)
C15_LibraryMirrorsCLI ==
    /\ entry = "TLSMigrator.RunSyncMigrate" =>
          \A x \in SyncOutcomes :
              TLSMigrator_RunSyncMigrate(args, fs, x) = Ret(log, result) =>
                  RunSyncMigrate(ToMainArgs(args), fs, x) = Ret(log, result)
    /\ entry = "main.RunSyncMigrate" =>
          \A x \in SyncOutcomes :
              RunSyncMigrate(args, fs, x) = Ret(log, result) =>
                  TLSMigrator_RunSyncMigrate(ToMigrateArgs(args), fs, x) = Ret(log, result)

C15_Witness ==
    /\ entry = "main.RunSyncMigrate"
    /\ Len(log) = 8
    /\ Last(log).call = "MigrateUpSync"
    /\ result = Ok
    /\ \E x \in SyncOutcomes :
          TLSMigrator_RunSyncMigrate(ToMigrateArgs(args), fs, x) = Ret(log, result)

\* the TLS configuration built from a loadable pair and a readable CA file
BuiltTLS ==
    <<[Certificates |-> <<Sprintf(args.CertDir, args.CertName)>>,
       RootCAs |-> IF CAState = "pem"
                   THEN <<Sprintf(args.CertDir, args.CAName)>> ELSE <<>>]>>

(* C16: createTLSConfig does not fail on the content of the CA file: with  *)
(* a matching certificate/key pair and a readable CA file, well-formed or  *)
(* not, it returns a configuration and no error (with an empty trust       *)
(* anchor pool when no certificate is parsed), so RunSyncMigrate and       *)
(* TestConnection on a good DSN go on to open the connection with that     *)
(* configuration and do not return a TLS-stage error.                      *)
C16_MalformedCAReachesOpen ==
    (/\ entry \in {"TLSMigrator.RunSyncMigrate", "TLSMigrator.TestConnection"}
     /\ ~TM_BothGiven(args)
     /\ ParseDSN(args.DSN) = <<>>
     /\ CertState = "pem" /\ KeyState = "pem"
     /\ CAState \in {"garbage", "pem"})
    => /\ TLSMigrator_createTLSConfig(args, fs).err = <<>>
       /\ TLSMigrator_createTLSConfig(args, fs).tls = BuiltTLS
       /\ CountCalls(log, {"Open"}) = 1
       /\ \A i \in 1..Len(log) : log[i].call = "Open" => log[i].arg.TLS = BuiltTLS
       /\ result.status = "error" =>
             result.err[1] \notin {"failed to get tls config",
                                   "failed to create TLS config"}

C16_Witness ==
    /\ entry = "TLSMigrator.TestConnection"
    /\ CertState = "pem" /\ KeyState = "pem" /\ CAState = "garbage"
    /\ \E i \in 1..Len(log) :
          /\ log[i].call = "Open"
          /\ log[i].ok
          /\ log[i].arg.TLS[1].RootCAs = <<>>
    /\ result = Ok


====
